---- MODULE Spec2Model ----
(***************************************************************************)
(* Model of app/core/tasks.py: the TaskManager background task engine.     *)
(*                                                                         *)
(* The registry (self._tasks), the in-flight handle table                  *)
(* (self._running_tasks), the asyncio event loop thread, the isolated      *)
(* worker threads and the per-task run routine (_run_task) are modelled    *)
(* statement by statement: every field assignment of _run_task is a step   *)
(* of its own, because callers on other threads (thread-pool endpoints,    *)
(* blocking work functions in the executor pool, isolated workers) read    *)
(* and write the same objects without any lock.                            *)
(***************************************************************************)
EXTENDS Integers, FiniteSets, Sequences, TLC

VARIABLES
    tasks,          \* keys of self._tasks (task_id -> TaskInfo object)
    info,           \* the TaskInfo objects, by task_id
    running_tasks,  \* keys of self._running_tasks (inline handles)
    must_cancel,    \* per handle: cancellation requested, not yet delivered
    pc,             \* per task: position of its run routine
    path,           \* per task: dispatch strategy chosen by create_task
    outcome,        \* per task: what the awaited work function produced
    loop,           \* who holds the event-loop thread (0: nobody)
    now,            \* the clock read by datetime.now(timezone.utc)
    next_id,        \* number of task ids generated so far
    creating,       \* id whose create_task call has not returned yet (0: none)
    returned,       \* last value returned by create_task (0: none yet)
    raised,         \* exception propagated to a caller of the API
    cancel_true,    \* ids for which cancel_task has returned True
    call,           \* the last API call a watching caller made, and its result
    watch,          \* the API functions whose callers are being watched
    scan            \* per scanning thread: progress of its list or sweep scan

vars == <<tasks, info, running_tasks, must_cancel, pc, path, outcome, loop,
          now, next_id, creating, returned, raised, cancel_true, call, watch,
          scan>>

----------------------------------------------------------------------------
(* Bounds *)

MaxTasks == 2
MaxTime == 1

----------------------------------------------------------------------------
(* Values *)

Ids == 1..MaxTasks

NoTime == -1
None == "None"
Caller == -1

PENDING == "pending"
RUNNING == "running"
COMPLETED == "completed"
FAILED == "failed"
CANCELLED == "cancelled"

Terminal == {COMPLETED, FAILED, CANCELLED}

\* values a work function may return
ReturnValues == {"ok"}

\* exceptions (subclasses of Exception) a work function may raise
Exceptions == {[cls |-> "Exception", arg |-> "boom"],
               [cls |-> "KeyError", arg |-> "k"]}

\* str(e): the single argument for Exception, its repr for KeyError
Str(e) == IF e.cls = "KeyError" THEN "'" \o e.arg \o "'" ELSE e.arg

ProgressValues == {"p1"}

\* the principals that create tasks, and two of the TaskTypes constants
Users == {"u1", "u2"}
GENERATE_RTM == "generate_rtm"
COVERAGE_ANALYSIS == "coverage_analysis"
TaskTypeValues == {GENERATE_RTM, COVERAGE_ANALYSIS}

\* the task_type arguments of get_user_tasks: absent, empty, or a type
TaskTypeFilters == {None, ""} \cup TaskTypeValues

MaxAges == {-1, 0, 1}

NoOutcome == [kind |-> "none", val |-> None]

NoInfo == [task_id |-> 0, user_id |-> None, project_id |-> None,
           task_type |-> None, status |-> "absent",
           created_at |-> NoTime, started_at |-> NoTime,
           completed_at |-> NoTime, result |-> None, error |-> None,
           progress |-> None]

\* TaskInfo(...) as constructed by create_task
TaskInfo(task_id, user_id, project_id, task_type, created) ==
    [task_id |-> task_id, user_id |-> user_id, project_id |-> project_id,
     task_type |-> task_type, status |-> PENDING,
     created_at |-> created, started_at |-> NoTime,
     completed_at |-> NoTime, result |-> None, error |-> None,
     progress |-> None]

\* no call watched yet. A call is kept as its operation, the tuple of its
\* arguments and the tuple of what it returned (empty when it returns nothing)
NoCall == [op |-> "none", arg |-> <<>>, ret |-> <<>>]

\* the argument and the returned value of a call of one argument
Arg(c) == c.arg[1]
Ret(c) == c.ret[1]

\* the threads that scan the registry statement by statement
Scanners == {"s1"}

\* the max_age_hours such a thread passes to cleanup_old_tasks
ScanAges == {0}

\* a thread that is not inside get_user_tasks or cleanup_old_tasks
NoScan == [op |-> "idle", phase |-> "idle", user_id |-> None,
           task_type |-> None, max_age |-> 0, at |-> NoTime, size |-> 0,
           last |-> 0, found |-> <<>>, removed |-> {}, expect |-> {},
           terminal |-> {}]

----------------------------------------------------------------------------

InitWatching(ops) ==
    /\ tasks = {}
    /\ info = [t \in Ids |-> NoInfo]
    /\ running_tasks = {}
    /\ must_cancel = [t \in Ids |-> FALSE]
    /\ pc = [t \in Ids |-> "none"]
    /\ path = [t \in Ids |-> "none"]
    /\ outcome = [t \in Ids |-> NoOutcome]
    /\ loop = 0
    /\ now = 0
    /\ next_id = 0
    /\ creating = 0
    /\ returned = 0
    /\ raised = None
    /\ cancel_true = {}
    /\ call = NoCall
    /\ watch = ops
    /\ scan = [s \in Scanners |-> NoScan]

\* the state after construction, no call watched
Init == InitWatching({})

\* the clock advances between any two statements, or not at all
Tick ==
    /\ now < MaxTime
    /\ now' = now + 1
    /\ UNCHANGED <<tasks, info, running_tasks, must_cancel, pc, path, outcome,
                   loop, next_id, creating, returned, raised, cancel_true>>
    /\ UNCHANGED <<call, watch, scan>>

----------------------------------------------------------------------------
(* asyncio.Task state of a handle *)

\* the run routine of t has ended (asyncio.Task.done(), or the worker is over)
RunEnded(t) == pc[t] \in {"done", "aborted", "crashed"}

\* the event-loop thread is free to run the next ready callback
LoopFree == loop = 0

\* the thread that executes the run routine of t may take a step of it:
\* an isolated worker at any time, an inline task only while it holds the loop
MayStep(t) == path[t] = "thread" \/ loop = t

\* the run routine of t is resumed by its scheduler: the private loop of the
\* worker thread, or the shared loop once no other coroutine holds it
MayResume(t) == path[t] = "thread" \/ (path[t] = "inline" /\ LoopFree)

\* after a suspension or the end of the routine the shared loop is released
Released(t) == IF path[t] = "inline" THEN 0 ELSE loop

----------------------------------------------------------------------------
(* create_task *)

\* faulty variant: the routine is dispatched to a loop of its own, so that it
\* can take its first steps before the calling coroutine yields
create_task_other_loop(in_loop, user_id, task_type, project_id) ==
    /\ creating = 0
    /\ next_id < MaxTasks
    /\ in_loop => LoopFree
    /\ LET t == next_id + 1 IN
        /\ next_id' = t
        /\ creating' = t
        /\ tasks' = tasks \cup {t}
        /\ info' = [info EXCEPT ![t] = TaskInfo(t, user_id, project_id, task_type,
                                                now)]
        /\ pc' = [pc EXCEPT ![t] = "ready"]
        /\ running_tasks' = IF in_loop THEN running_tasks \cup {t}
                                       ELSE running_tasks
        /\ path' = [path EXCEPT ![t] = IF in_loop THEN "inline" ELSE "thread"]
        /\ loop' = loop
    /\ UNCHANGED <<must_cancel, outcome, now, returned, raised, cancel_true>>
    /\ UNCHANGED <<call, watch, scan>>

\* faulty variant: the RuntimeError of the probe is not caught; the record is
\* stored, nothing is dispatched and the error reaches the caller
create_task_probe_raises(in_loop, user_id, task_type, project_id) ==
    /\ creating = 0
    /\ next_id < MaxTasks
    /\ in_loop => LoopFree
    /\ LET t == next_id + 1 IN
        /\ next_id' = t
        /\ creating' = t
        /\ tasks' = tasks \cup {t}
        /\ info' = [info EXCEPT ![t] = TaskInfo(t, user_id, project_id, task_type,
                                                now)]
        /\ IF in_loop
              THEN /\ running_tasks' = running_tasks \cup {t}
                   /\ path' = [path EXCEPT ![t] = "inline"]
                   /\ pc' = [pc EXCEPT ![t] = "ready"]
                   /\ loop' = Caller
                   /\ raised' = raised
              ELSE /\ running_tasks' = running_tasks
                   /\ path' = [path EXCEPT ![t] = "thread"]
                   /\ pc' = [pc EXCEPT ![t] = "crashed"]
                   /\ loop' = loop
                   /\ raised' = "RuntimeError"
    /\ UNCHANGED <<must_cancel, outcome, now, returned, cancel_true>>
    /\ UNCHANGED <<call, watch, scan>>

\* lines 58-99: build the record, store it, probe for a running loop and
\* dispatch. in_loop: the call is made by a coroutine of the shared loop
\* (asyncio.get_running_loop() succeeds); otherwise the probe raises
\* RuntimeError, which is caught, and a daemon thread is started.
create_task(in_loop, user_id, task_type, project_id) ==
    /\ creating = 0
    /\ next_id < MaxTasks
    /\ in_loop => LoopFree
    /\ LET t == next_id + 1 IN
        /\ next_id' = t
        /\ creating' = t
        /\ tasks' = tasks \cup {t}
        /\ info' = [info EXCEPT ![t] = TaskInfo(t, user_id, project_id, task_type,
                                                now)]
        /\ pc' = [pc EXCEPT ![t] = "ready"]
        /\ IF in_loop
              THEN /\ running_tasks' = running_tasks \cup {t}
                   /\ path' = [path EXCEPT ![t] = "inline"]
                   /\ loop' = Caller
              ELSE /\ running_tasks' = running_tasks
                   /\ path' = [path EXCEPT ![t] = "thread"]
                   /\ loop' = loop
    /\ UNCHANGED <<must_cancel, outcome, now, returned, raised, cancel_true>>
    /\ UNCHANGED <<call, watch, scan>>

\* faulty variant: the caller waits for the run routine (joins the worker
\* thread, runs the loop until the routine is complete) before it returns
create_task_return_joined ==
    /\ creating # 0
    /\ RunEnded(creating)
    /\ returned' = creating
    /\ creating' = 0
    /\ loop' = IF loop = Caller THEN 0 ELSE loop
    /\ UNCHANGED <<tasks, info, running_tasks, must_cancel, pc, path, outcome,
                   now, next_id, raised, cancel_true>>
    /\ UNCHANGED <<call, watch, scan>>

\* lines 102-104: log and return the id; the calling coroutine then yields
create_task_return ==
    /\ creating # 0
    /\ returned' = creating
    /\ creating' = 0
    /\ loop' = IF loop = Caller THEN 0 ELSE loop
    /\ UNCHANGED <<tasks, info, running_tasks, must_cancel, pc, path, outcome,
                   now, next_id, raised, cancel_true>>
    /\ UNCHANGED <<call, watch, scan>>

----------------------------------------------------------------------------
(* _run_task *)

\* first step of the routine. A handle cancelled before its first step has
\* CancelledError thrown into the unstarted coroutine: no line of the body
\* runs, neither the except clauses nor the finally. Otherwise line 109 looks
\* the record up (KeyError when it is gone, raised before the try).
run_task_start(t) ==
    /\ pc[t] = "ready"
    /\ MayResume(t)
    /\ IF must_cancel[t]
          THEN /\ pc' = [pc EXCEPT ![t] = "aborted"]
               /\ must_cancel' = [must_cancel EXCEPT ![t] = FALSE]
               /\ loop' = loop
          ELSE /\ pc' = [pc EXCEPT ![t] = IF t \in tasks THEN "l113" ELSE "crashed"]
               /\ must_cancel' = must_cancel
               /\ loop' = IF path[t] = "inline" /\ t \in tasks THEN t ELSE loop
    /\ UNCHANGED <<tasks, info, running_tasks, path, outcome, now, next_id,
                   creating, returned, raised, cancel_true>>
    /\ UNCHANGED <<call, watch, scan>>

\* faulty variant: the routine goes on without marking the record Running
run_task_running_skipped(t) ==
    /\ pc[t] = "l113"
    /\ MayStep(t)
    /\ pc' = [pc EXCEPT ![t] = "l114"]
    /\ UNCHANGED <<tasks, info, running_tasks, must_cancel, path, outcome, loop,
                   now, next_id, creating, returned, raised, cancel_true>>
    /\ UNCHANGED <<call, watch, scan>>

\* line 113: task_info.status = TaskStatus.RUNNING
run_task_running(t) ==
    /\ pc[t] = "l113"
    /\ MayStep(t)
    /\ info' = [info EXCEPT ![t].status = RUNNING]
    /\ pc' = [pc EXCEPT ![t] = "l114"]
    /\ UNCHANGED <<tasks, running_tasks, must_cancel, path, outcome, loop, now,
                   next_id, creating, returned, raised, cancel_true>>
    /\ UNCHANGED <<call, watch, scan>>

\* line 114: task_info.started_at = datetime.now(timezone.utc)
run_task_started_at(t) ==
    /\ pc[t] = "l114"
    /\ MayStep(t)
    /\ info' = [info EXCEPT ![t].started_at = now]
    /\ pc' = [pc EXCEPT ![t] = "l119"]
    /\ UNCHANGED <<tasks, running_tasks, must_cancel, path, outcome, loop, now,
                   next_id, creating, returned, raised, cancel_true>>
    /\ UNCHANGED <<call, watch, scan>>

\* what a work function can do when it ends by itself: return, raise an
\* Exception, or raise CancelledError (a BaseException), which a coroutine
\* raises at line 120 and which the executor future of a blocking function
\* hands on at line 124
WorkOutcomes(coroutine) ==
    [kind : {"return"}, val : ReturnValues]
        \cup [kind : {"raise"}, val : Exceptions]
        \cup {[kind |-> "cancel", val |-> None]}

\* what becomes of a cancellation delivered at the await of line 120 or 124:
\* the executor future of a blocking function is cancelled and the await
\* raises CancelledError; a coroutine work function has CancelledError thrown
\* in at its suspension point, and lets it through or handles it
CancelOutcomes(coroutine) ==
    {[kind |-> "cancel", val |-> None]}
        \cup (IF coroutine
                 THEN [kind : {"return"}, val : ReturnValues]
                          \cup [kind : {"raise"}, val : Exceptions]
                 ELSE {})

\* where the routine continues once the await has produced o
Continue(o) ==
    CASE o.kind = "return" -> "l127"
      [] o.kind = "cancel" -> "l135"
      [] o.kind = "raise" -> "l141"

\* faulty variant: a blocking function is called on the driving loop itself,
\* which stays held until the function returns
run_task_invoke_on_loop(t) ==
    /\ pc[t] = "l119"
    /\ MayStep(t)
    /\ \/ /\ pc' = [pc EXCEPT ![t] = "l120"]
          /\ loop' = Released(t)
          /\ outcome' = outcome
       \/ /\ pc' = [pc EXCEPT ![t] = "l124"]
          /\ loop' = loop
          /\ outcome' = outcome
       \/ \E o \in WorkOutcomes(TRUE) :
            /\ pc' = [pc EXCEPT ![t] = Continue(o)]
            /\ outcome' = [outcome EXCEPT ![t] = o]
            /\ loop' = loop
    /\ UNCHANGED <<tasks, info, running_tasks, must_cancel, path, now, next_id,
                   creating, returned, raised, cancel_true>>
    /\ UNCHANGED <<call, watch, scan>>

\* lines 119-124: invoke the work function. A coroutine function is awaited
\* on the driving loop (line 120) and either suspends or ends without ever
\* suspending; a blocking function is handed to the executor pool and its
\* future awaited (line 124).
run_task_invoke(t) ==
    /\ pc[t] = "l119"
    /\ MayStep(t)
    /\ \/ /\ pc' = [pc EXCEPT ![t] = "l120"]
          /\ loop' = Released(t)
          /\ outcome' = outcome
       \/ /\ pc' = [pc EXCEPT ![t] = "l124"]
          /\ loop' = Released(t)
          /\ outcome' = outcome
       \/ \E o \in WorkOutcomes(TRUE) :
            /\ pc' = [pc EXCEPT ![t] = Continue(o)]
            /\ outcome' = [outcome EXCEPT ![t] = o]
            /\ loop' = loop
    /\ UNCHANGED <<tasks, info, running_tasks, must_cancel, path, now, next_id,
                   creating, returned, raised, cancel_true>>
    /\ UNCHANGED <<call, watch, scan>>

\* the scheduler resumes the routine at its await: with CancelledError when
\* the handle was cancelled meanwhile, with the work function's end otherwise
run_task_resume(t) ==
    /\ pc[t] \in {"l120", "l124"}
    /\ MayResume(t)
    /\ \E o \in IF must_cancel[t] THEN CancelOutcomes(pc[t] = "l120")
                                  ELSE WorkOutcomes(pc[t] = "l120") :
        /\ outcome' = [outcome EXCEPT ![t] = o]
        /\ pc' = [pc EXCEPT ![t] = Continue(o)]
    /\ must_cancel' = [must_cancel EXCEPT ![t] = FALSE]
    /\ loop' = IF path[t] = "inline" THEN t ELSE loop
    /\ UNCHANGED <<tasks, info, running_tasks, path, now, next_id, creating,
                   returned, raised, cancel_true>>
    /\ UNCHANGED <<call, watch, scan>>

\* faulty variant: the success branch marks the record Failed
StatusAt_success_failed(p) ==
    CASE p = "l127" -> FAILED
      [] p = "l135" -> CANCELLED
      [] p = "l141" -> FAILED

\* lines 127, 135, 141: task_info.status = ...
StatusAt(p) ==
    CASE p = "l127" -> COMPLETED
      [] p = "l135" -> CANCELLED
      [] p = "l141" -> FAILED

\* faulty variant: a work function that raised is invoked again instead of
\* the record being marked Failed
run_task_status_retries(t) ==
    /\ pc[t] \in {"l127", "l135", "l141"}
    /\ MayStep(t)
    /\ info' = IF pc[t] = "l141" THEN info
               ELSE [info EXCEPT ![t].status = StatusAt(pc[t])]
    /\ pc' = [pc EXCEPT ![t] = CASE pc[t] = "l127" -> "l128"
                                 [] pc[t] = "l135" -> "l136"
                                 [] pc[t] = "l141" -> "l119"]
    /\ UNCHANGED <<tasks, running_tasks, must_cancel, path, outcome, loop, now,
                   next_id, creating, returned, raised, cancel_true>>
    /\ UNCHANGED <<call, watch, scan>>

\* lines 127, 135, 141, executed
run_task_status(t) ==
    /\ pc[t] \in {"l127", "l135", "l141"}
    /\ MayStep(t)
    /\ info' = [info EXCEPT ![t].status = StatusAt(pc[t])]
    /\ pc' = [pc EXCEPT ![t] = CASE pc[t] = "l127" -> "l128"
                                 [] pc[t] = "l135" -> "l136"
                                 [] pc[t] = "l141" -> "l142"]
    /\ UNCHANGED <<tasks, running_tasks, must_cancel, path, outcome, loop, now,
                   next_id, creating, returned, raised, cancel_true>>
    /\ UNCHANGED <<call, watch, scan>>

\* lines 128, 136, 142: task_info.completed_at = datetime.now(timezone.utc)
run_task_completed_at(t) ==
    /\ pc[t] \in {"l128", "l136", "l142"}
    /\ MayStep(t)
    /\ info' = [info EXCEPT ![t].completed_at = now]
    /\ pc' = [pc EXCEPT ![t] = CASE pc[t] = "l128" -> "l129"
                                 [] pc[t] = "l136" -> "l150"
                                 [] pc[t] = "l142" -> "l143"]
    /\ UNCHANGED <<tasks, running_tasks, must_cancel, path, outcome, loop, now,
                   next_id, creating, returned, raised, cancel_true>>
    /\ UNCHANGED <<call, watch, scan>>

\* faulty variant: the returned value is not stored
run_task_result_dropped(t) ==
    /\ pc[t] = "l129"
    /\ MayStep(t)
    /\ pc' = [pc EXCEPT ![t] = "l150"]
    /\ UNCHANGED <<tasks, info, running_tasks, must_cancel, path, outcome, loop,
                   now, next_id, creating, returned, raised, cancel_true>>
    /\ UNCHANGED <<call, watch, scan>>

\* line 129: task_info.result = result
run_task_result(t) ==
    /\ pc[t] = "l129"
    /\ MayStep(t)
    /\ info' = [info EXCEPT ![t].result = outcome[t].val]
    /\ pc' = [pc EXCEPT ![t] = "l150"]
    /\ UNCHANGED <<tasks, running_tasks, must_cancel, path, outcome, loop, now,
                   next_id, creating, returned, raised, cancel_true>>
    /\ UNCHANGED <<call, watch, scan>>

\* faulty variant: the first argument of the exception is stored, not str(e)
run_task_error_arg(t) ==
    /\ pc[t] = "l143"
    /\ MayStep(t)
    /\ info' = [info EXCEPT ![t].error = outcome[t].val.arg]
    /\ pc' = [pc EXCEPT ![t] = "l150"]
    /\ UNCHANGED <<tasks, running_tasks, must_cancel, path, outcome, loop, now,
                   next_id, creating, returned, raised, cancel_true>>
    /\ UNCHANGED <<call, watch, scan>>

\* line 143: task_info.error = str(e)
run_task_error(t) ==
    /\ pc[t] = "l143"
    /\ MayStep(t)
    /\ info' = [info EXCEPT ![t].error = Str(outcome[t].val)]
    /\ pc' = [pc EXCEPT ![t] = "l150"]
    /\ UNCHANGED <<tasks, running_tasks, must_cancel, path, outcome, loop, now,
                   next_id, creating, returned, raised, cancel_true>>
    /\ UNCHANGED <<call, watch, scan>>

\* faulty variant: the finally clause stamps completed_at once more
run_task_finally_restamps(t) ==
    /\ pc[t] = "l150"
    /\ MayStep(t)
    /\ running_tasks' = running_tasks \ {t}
    /\ info' = [info EXCEPT ![t].completed_at = now]
    /\ pc' = [pc EXCEPT ![t] = "done"]
    /\ loop' = Released(t)
    /\ UNCHANGED <<tasks, must_cancel, path, outcome, now, next_id,
                   creating, returned, raised, cancel_true>>
    /\ UNCHANGED <<call, watch, scan>>

\* faulty variant: the finally clause drops the record with the handle
run_task_finally_drops_record(t) ==
    /\ pc[t] = "l150"
    /\ MayStep(t)
    /\ running_tasks' = running_tasks \ {t}
    /\ tasks' = tasks \ {t}
    /\ pc' = [pc EXCEPT ![t] = "done"]
    /\ loop' = Released(t)
    /\ UNCHANGED <<info, must_cancel, path, outcome, now, next_id,
                   creating, returned, raised, cancel_true>>
    /\ UNCHANGED <<call, watch, scan>>

\* lines 148-151: finally, drop the handle; the routine is over
run_task_finally(t) ==
    /\ pc[t] = "l150"
    /\ MayStep(t)
    /\ running_tasks' = running_tasks \ {t}
    /\ pc' = [pc EXCEPT ![t] = "done"]
    /\ loop' = Released(t)
    /\ UNCHANGED <<tasks, info, must_cancel, path, outcome, now, next_id,
                   creating, returned, raised, cancel_true>>
    /\ UNCHANGED <<call, watch, scan>>

----------------------------------------------------------------------------
(* cancel_task, cleanup_old_tasks, update_task_progress: callable from any   *)
(* thread at any moment. An id is a uuid4 string, so a caller passes either  *)
(* an id that create_task has returned or one that names no task: never the  *)
(* id of a create_task call still in progress.                               *)

Known(t) == t # creating

\* a watched call leaves its operation, argument and return value in call
Record(c) == call' = IF c.op \in watch THEN c ELSE call

\* lines 159-165: the value cancel_task returns
cancel_task_returns(t) == t \in running_tasks

\* faulty variant: the call looks the id up among the records, not among the
\* handles, so it answers True for a task that has no handle
cancel_task_by_record(t) ==
    /\ Known(t)
    /\ IF t \in tasks
          THEN /\ must_cancel' = [must_cancel EXCEPT ![t] = ~RunEnded(t)]
               /\ cancel_true' = cancel_true \cup {t}
          ELSE UNCHANGED <<must_cancel, cancel_true>>
    /\ Record([op |-> "cancel", arg |-> <<t>>, ret |-> <<t \in tasks>>])
    /\ UNCHANGED <<tasks, info, running_tasks, pc, path, outcome, loop, now,
                   next_id, creating, returned, raised>>
    /\ UNCHANGED <<watch, scan>>

\* lines 157-165. task.cancel() marks a handle whose run has not ended and is
\* a no-op on one that has; cancel_task returns True either way.
cancel_task(t) ==
    /\ Known(t)
    /\ IF t \in running_tasks
          THEN /\ must_cancel' = [must_cancel EXCEPT ![t] = ~RunEnded(t)]
               /\ cancel_true' = cancel_true \cup {t}
          ELSE UNCHANGED <<must_cancel, cancel_true>>
    /\ Record([op |-> "cancel", arg |-> <<t>>,
               ret |-> <<cancel_task_returns(t)>>])
    /\ UNCHANGED <<tasks, info, running_tasks, pc, path, outcome, loop, now,
                   next_id, creating, returned, raised>>
    /\ UNCHANGED <<watch, scan>>

\* faulty variant: the scan selects by age since creation, whatever the status
tasks_to_remove_any_status(max_age) ==
    {t \in tasks : now - info[t].created_at > max_age}

\* faulty variant: a record as old as max_age, not older, is selected too
tasks_to_remove_inclusive(max_age) ==
    {t \in tasks : /\ info[t].status \in Terminal
                   /\ info[t].completed_at # NoTime
                   /\ now - info[t].completed_at >= max_age}

\* lines 184-188: the records the scan of cleanup_old_tasks selects
tasks_to_remove(max_age) ==
    {t \in tasks : /\ info[t].status \in Terminal
                   /\ info[t].completed_at # NoTime
                   /\ now - info[t].completed_at > max_age}

\* line 179: max_age_hours = 24 when the caller passes none
DefaultMaxAge == 24

\* faulty variant: the argument is ignored and the default age applies
cleanup_old_tasks_default(max_age) ==
    /\ tasks' = tasks \ tasks_to_remove(DefaultMaxAge)
    /\ Record([op |-> "cleanup", arg |-> <<max_age>>, ret |-> <<>>])
    /\ UNCHANGED <<info, running_tasks, must_cancel, pc, path, outcome, loop,
                   now, next_id, creating, returned, raised, cancel_true>>
    /\ UNCHANGED <<watch, scan>>

\* lines 179-192
cleanup_old_tasks(max_age) ==
    /\ tasks' = tasks \ tasks_to_remove(max_age)
    /\ Record([op |-> "cleanup", arg |-> <<max_age>>, ret |-> <<>>])
    /\ UNCHANGED <<info, running_tasks, must_cancel, pc, path, outcome, loop,
                   now, next_id, creating, returned, raised, cancel_true>>
    /\ UNCHANGED <<watch, scan>>

\* faulty variant: the progress is written without the membership test, as
\* with setdefault, so that a record is stored again under a missing id
update_task_progress_upsert(t, p) ==
    /\ Known(t)
    /\ info' = [info EXCEPT ![t].progress = p]
    /\ tasks' = tasks \cup {t}
    /\ Record([op |-> "progress", arg |-> <<t, p>>, ret |-> <<>>])
    /\ UNCHANGED <<running_tasks, must_cancel, pc, path, outcome, loop,
                   now, next_id, creating, returned, raised, cancel_true>>
    /\ UNCHANGED <<watch, scan>>

\* lines 194-198
update_task_progress(t, p) ==
    /\ Known(t)
    /\ info' = IF t \in tasks THEN [info EXCEPT ![t].progress = p] ELSE info
    /\ Record([op |-> "progress", arg |-> <<t, p>>, ret |-> <<>>])
    /\ UNCHANGED <<tasks, running_tasks, must_cancel, pc, path, outcome, loop,
                   now, next_id, creating, returned, raised, cancel_true>>
    /\ UNCHANGED <<watch, scan>>

\* faulty variant: the lookup still finds a record that was deleted
get_task_status_kept(t) == info[t]

\* lines 153-155: dict.get returns the stored record, or None for any other key
get_task_status(t) == IF t \in tasks THEN info[t] ELSE NoInfo

\* lines 153-155, called
call_get_task_status(t) ==
    /\ Known(t)
    /\ Record([op |-> "get", arg |-> <<t>>, ret |-> <<get_task_status(t)>>])
    /\ UNCHANGED <<tasks, info, running_tasks, must_cancel, pc, path, outcome,
                   loop, now, next_id, creating, returned, raised, cancel_true>>
    /\ UNCHANGED <<watch, scan>>

\* line 174: None and the empty string are both false
Falsy(task_type) == task_type \in {None, ""}

\* lines 169-175: the two list comprehensions over a set S of stored ids
user_tasks(S, user_id, task_type) ==
    {t \in S : /\ info[t].user_id = user_id
               /\ Falsy(task_type) \/ info[t].task_type = task_type}

\* line 177: sorted(..., reverse=True) is stable, so records with equal
\* created_at keep the order of the dict, which is the order of insertion
RECURSIVE sorted_reverse(_)
sorted_reverse(S) ==
    IF S = {} THEN <<>>
    ELSE LET t == CHOOSE x \in S :
                    \A y \in S \ {x} :
                        \/ info[x].created_at > info[y].created_at
                        \/ /\ info[x].created_at = info[y].created_at
                           /\ x < y
         IN <<t>> \o sorted_reverse(S \ {t})

\* lines 167-177: the ids of the returned records, in the returned order
get_user_tasks(user_id, task_type) ==
    sorted_reverse(user_tasks(tasks, user_id, task_type))

\* lines 167-177, called
call_get_user_tasks(user_id, task_type) ==
    /\ Record([op |-> "list", arg |-> <<user_id, task_type>>,
               ret |-> <<get_user_tasks(user_id, task_type)>>])
    /\ UNCHANGED <<tasks, info, running_tasks, must_cancel, pc, path, outcome,
                   loop, now, next_id, creating, returned, raised, cancel_true>>
    /\ UNCHANGED <<watch, scan>>

----------------------------------------------------------------------------
(* get_user_tasks and cleanup_old_tasks, statement by statement, as a thread *)
(* runs them while other threads run theirs. A dict iterator keeps the size  *)
(* the dict had when it was made and its position among the entries, which   *)
(* are kept in insertion order; its next() raises RuntimeError when the size *)
(* differs. Beside what the code holds, a scan keeps what the call was made  *)
(* on: the ids a call running alone would select (expect) and the ids whose  *)
(* records were terminal (terminal).                                         *)

Scanning(s) == scan[s].phase = "scan"

\* lines 181-184: current_time is read, the list is empty, the iterator made
cleanup_begin(s, max_age) ==
    /\ scan[s] = NoScan
    /\ scan' = [scan EXCEPT ![s] =
                  [NoScan EXCEPT !.op = "cleanup", !.phase = "scan",
                                 !.max_age = max_age, !.at = now,
                                 !.size = Cardinality(tasks),
                                 !.expect = tasks_to_remove(max_age),
                                 !.terminal =
                                     {t \in tasks :
                                         info[t].status \in Terminal}]]
    /\ UNCHANGED <<tasks, info, running_tasks, must_cancel, pc, path, outcome,
                   loop, now, next_id, creating, returned, raised, cancel_true>>
    /\ UNCHANGED <<call, watch>>

\* lines 169-170: the iterator of the first list comprehension is made
get_user_tasks_begin(s, user_id, task_type) ==
    /\ scan[s] = NoScan
    /\ scan' = [scan EXCEPT ![s] =
                  [NoScan EXCEPT !.op = "list", !.phase = "scan",
                                 !.user_id = user_id, !.task_type = task_type,
                                 !.size = Cardinality(tasks),
                                 !.expect =
                                     user_tasks(tasks, user_id, task_type)]]
    /\ UNCHANGED <<tasks, info, running_tasks, must_cancel, pc, path, outcome,
                   loop, now, next_id, creating, returned, raised, cancel_true>>
    /\ UNCHANGED <<call, watch>>

\* lines 185-187 and 171: the test a scan applies to the record it visits
Selected(s, t) ==
    IF scan[s].op = "cleanup"
       THEN /\ info[t].status \in Terminal
            /\ info[t].completed_at # NoTime
            /\ scan[s].at - info[t].completed_at > scan[s].max_age
       ELSE info[t].user_id = scan[s].user_id

\* the entries the iterator of a scan has not passed yet
Ahead(s) == {t \in tasks : t > scan[s].last}

\* what a step of the call raises in the current state, None when nothing
ScanRaises(s) ==
    IF Scanning(s) /\ Cardinality(tasks) # scan[s].size
       THEN "RuntimeError"
    ELSE IF /\ scan[s].phase = "delete"
            /\ scan[s].found # <<>>
            /\ Head(scan[s].found) \notin tasks
       THEN "KeyError"
    ELSE None

\* lines 174-177: what get_user_tasks returns once its scan is exhausted
ScanReturns(s) ==
    sorted_reverse({t \in tasks :
                       \E i \in 1..Len(scan[s].found) : scan[s].found[i] = t}
                   \cap user_tasks(tasks, scan[s].user_id, scan[s].task_type))

\* lines 184-188, 169-172: one next() of the iterator and the loop body
scan_next(s) ==
    /\ Scanning(s)
    /\ IF ScanRaises(s) # None
          THEN /\ scan' = [scan EXCEPT ![s] = NoScan]
               /\ raised' = ScanRaises(s)
          ELSE /\ raised' = raised
               /\ IF Ahead(s) # {}
                     THEN LET t == CHOOSE x \in Ahead(s) :
                                       \A y \in Ahead(s) : x <= y
                          IN scan' = [scan EXCEPT
                                 ![s].last = t,
                                 ![s].found =
                                     IF Selected(s, t) THEN Append(@, t)
                                                       ELSE @]
                     ELSE IF scan[s].op = "cleanup"
                             THEN scan' = [scan EXCEPT ![s].phase = "delete"]
                             ELSE scan' = [scan EXCEPT ![s] = NoScan]
    /\ UNCHANGED <<tasks, info, running_tasks, must_cancel, pc, path, outcome,
                   loop, now, next_id, creating, returned, cancel_true>>
    /\ UNCHANGED <<call, watch>>

\* lines 190-192: one turn of the deleting loop, or the return after the last
cleanup_delete(s) ==
    /\ scan[s].phase = "delete"
    /\ IF ScanRaises(s) # None
          THEN /\ scan' = [scan EXCEPT ![s] = NoScan]
               /\ raised' = ScanRaises(s)
               /\ tasks' = tasks
          ELSE /\ raised' = raised
               /\ IF scan[s].found = <<>>
                     THEN /\ scan' = [scan EXCEPT ![s] = NoScan]
                          /\ tasks' = tasks
                     ELSE /\ tasks' = tasks \ {Head(scan[s].found)}
                          /\ scan' = [scan EXCEPT
                                 ![s].found = Tail(@),
                                 ![s].removed = @ \cup {Head(scan[s].found)}]
    /\ UNCHANGED <<info, running_tasks, must_cancel, pc, path, outcome,
                   loop, now, next_id, creating, returned, cancel_true>>
    /\ UNCHANGED <<call, watch>>

----------------------------------------------------------------------------

run_task(t) ==
    \/ run_task_start(t)
    \/ run_task_running(t)
    \/ run_task_started_at(t)
    \/ run_task_invoke(t)
    \/ run_task_resume(t)
    \/ run_task_status(t)
    \/ run_task_completed_at(t)
    \/ run_task_result(t)
    \/ run_task_error(t)
    \/ run_task_finally(t)

\* the engine within one reading of the clock
Next ==
    \/ \E in_loop \in BOOLEAN : create_task(in_loop, "u1", GENERATE_RTM, "p1")
    \/ create_task_return
    \/ \E t \in Ids : run_task(t)
    \/ \E t \in Ids : cancel_task(t)
    \/ \E a \in MaxAges : cleanup_old_tasks(a)
    \/ \E t \in Ids : call_get_task_status(t)
    \/ \E u \in Users, ty \in TaskTypeFilters : call_get_user_tasks(u, ty)

Spec == Init /\ [][Next]_vars

\* the engine with the clock advancing and progress reported
NextFull ==
    \/ Next
    \/ Tick
    \/ \E t \in Ids, p \in ProgressValues : update_task_progress(t, p)

SpecFull == Init /\ [][NextFull]_vars

\* the engine with the calls of cancel_task watched
SpecCancel == InitWatching({"cancel"}) /\ [][Next]_vars

\* the engine with the clock advancing
NextTimed ==
    \/ Next
    \/ Tick

\* the timed engine with the calls of cleanup_old_tasks watched
SpecSweep == InitWatching({"cleanup"}) /\ [][NextTimed]_vars

\* the timed engine with one thread that lists and sweeps statement by
\* statement while the other threads create, run and sweep
NextScan ==
    \/ \E in_loop \in BOOLEAN : create_task(in_loop, "u1", GENERATE_RTM, "p1")
    \/ create_task_return
    \/ \E t \in Ids : run_task(t)
    \/ \E a \in MaxAges : cleanup_old_tasks(a)
    \/ Tick
    \/ \E s \in Scanners, a \in ScanAges : cleanup_begin(s, a)
    \/ \E s \in Scanners : get_user_tasks_begin(s, "u1", None)
    \/ \E s \in Scanners : scan_next(s)
    \/ \E s \in Scanners : cleanup_delete(s)

SpecScan == Init /\ [][NextScan]_vars

\* the engine with progress reported and the calls of update_task_progress
\* watched
NextProgress ==
    \/ Next
    \/ \E t \in Ids, p \in ProgressValues : update_task_progress(t, p)

SpecProgress == InitWatching({"progress"}) /\ [][NextProgress]_vars

\* bot.py lines 76-82: the coverage-test endpoint, a coroutine of the shared
\* loop, creates its task
run_coverage_analysis_create ==
    create_task(TRUE, "u1", COVERAGE_ANALYSIS, "p1")

\* bot.py line 85: the endpoint reads the record back in its next statement,
\* before it yields
run_coverage_analysis_status ==
    /\ creating # 0
    /\ info[creating].task_type = COVERAGE_ANALYSIS
    /\ Record([op |-> "get", arg |-> <<creating>>,
               ret |-> <<get_task_status(creating)>>])
    /\ UNCHANGED <<tasks, info, running_tasks, must_cancel, pc, path, outcome,
                   loop, now, next_id, creating, returned, raised, cancel_true>>
    /\ UNCHANGED <<watch, scan>>

\* the engine with the coverage-test endpoint among its callers
NextEndpoint ==
    \/ Next
    \/ run_coverage_analysis_create
    \/ run_coverage_analysis_status

\* the engine and the endpoint with the calls of get_task_status watched
SpecEndpoint == InitWatching({"get"}) /\ [][NextEndpoint]_vars

\* the engine with the calls of get_task_status watched
SpecGet == InitWatching({"get"}) /\ [][Next]_vars

----------------------------------------------------------------------------
(* Queries *)

Created == 1..next_id

----------------------------------------------------------------------------
(* Task lifecycle *)

\* the status transitions Pending -> Running -> {Completed, Failed, Cancelled}
Follows(a, b) ==
    \/ a = PENDING /\ b = RUNNING
    \/ a = RUNNING /\ b \in Terminal

\* C1: the statuses a record takes over time are a prefix of Pending,
\* Running, X with X terminal: a record is born Pending, and every later
\* change of its status is Pending -> Running or Running -> terminal.
C1_StatusMonotonic ==
    [][\A t \in Ids :
          info'[t].status # info[t].status =>
              IF info[t].status = "absent"
                 THEN info'[t].status = PENDING
                 ELSE Follows(info[t].status, info'[t].status)]_vars

\* one record went Pending, Running, Cancelled after a cancel_task; another
\* went Pending, Running, Completed or Failed and was then reaped by a sweep
C1_Witness ==
    \E t \in Created, u \in Created :
        /\ t \in cancel_true
        /\ info[t].status = CANCELLED
        /\ info[t].started_at # NoTime
        /\ info[u].status \in {COMPLETED, FAILED}
        /\ u \notin tasks

\* C2: once cancel_task has returned True for an inline task and its run
\* has ended, the record is Cancelled with completed_at set and neither
\* result nor error.
C2_CancelTrueEndsCancelled ==
    \A t \in Created :
        (t \in cancel_true /\ path[t] = "inline" /\ RunEnded(t)) =>
            /\ info[t].status = CANCELLED
            /\ info[t].completed_at # NoTime
            /\ info[t].result = None
            /\ info[t].error = None

\* C3: once the run of a created task has ended (its work function has
\* returned or raised, or was never entered), the record is terminal.
C3_EndedRunIsTerminal ==
    \A t \in Created : RunEnded(t) => info[t].status \in Terminal

\* C4: a run whose work function returned v ends with the record Completed,
\* result = v, completed_at set, error unset.
C4_ReturnCompletes ==
    \A t \in Created :
        (pc[t] = "done" /\ outcome[t].kind = "return") =>
            /\ info[t].status = COMPLETED
            /\ info[t].result = outcome[t].val
            /\ info[t].completed_at # NoTime
            /\ info[t].error = None

\* both dispatch paths have completed a task with its result
C4_Witness ==
    \E t \in Created, u \in Created :
        /\ path[t] = "inline" /\ path[u] = "thread"
        /\ pc[t] = "done" /\ pc[u] = "done"
        /\ info[t].result = "ok" /\ info[u].result = "ok"

C6_ResultErrorExclusive ==
    \A t \in Ids :
        /\ info[t].result # None => info[t].status = COMPLETED
        /\ info[t].error # None => info[t].status = FAILED
        /\ ~(info[t].result # None /\ info[t].error # None)
        /\ info[t].status = CANCELLED =>
               (info[t].result = None /\ info[t].error = None)

\* a Completed record with its result, a Failed one with its error
C6_Witness ==
    \E t \in Created, u \in Created :
        /\ info[t].status = COMPLETED /\ info[t].result # None
        /\ info[u].status = FAILED /\ info[u].error # None

\* a Cancelled record exists while another holds a result
C6_WitnessCancelled ==
    \E t \in Created, u \in Created :
        /\ info[t].status = CANCELLED /\ info[u].result # None

\* C7: in every state a caller of get_task_status can observe, started_at
\* is unset exactly when status is Pending.
C7_StartedAtIffNotPending ==
    \A t \in Ids :
        t \in tasks =>
            (get_task_status(t).started_at = NoTime
                <=> get_task_status(t).status = PENDING)

\* C8: in every state a caller of get_task_status can observe,
\* completed_at is set exactly when status is terminal.
C8_CompletedAtIffTerminal ==
    \A t \in Ids :
        t \in tasks =>
            (get_task_status(t).completed_at # NoTime
                <=> get_task_status(t).status \in Terminal)

\* C9: a create_task call in progress can always return, whatever the run
\* routine of the new task and its work function are doing.
C9_ReturnNeverWaits ==
    creating # 0 => ENABLED create_task_return

\* create_task has returned on both paths while the work function of each
\* task is still being awaited
C9_Witness ==
    \E t \in Created, u \in Created :
        /\ path[t] = "inline" /\ path[u] = "thread"
        /\ creating = 0 /\ returned = u
        /\ pc[t] \in {"l120", "l124"} /\ pc[u] \in {"l120", "l124"}
        /\ info[t].status = RUNNING /\ info[u].status = RUNNING

\* C10: a create_task call made on the running loop schedules the routine
\* there and records a handle; one made elsewhere starts a worker thread
\* and records none; either way the record is stored Pending, nothing is
\* raised and the call returns the new id.
C10_DispatchByProbe ==
    [][/\ next_id' # next_id =>
            LET t == next_id' IN
                /\ t \in tasks'
                /\ info'[t].status = PENDING
                /\ pc'[t] = "ready"
                /\ creating' = t
                /\ raised' = None
                /\ IF loop' = Caller
                      THEN path'[t] = "inline" /\ t \in running_tasks'
                      ELSE path'[t] = "thread" /\ t \notin running_tasks'
       /\ (creating # 0 /\ creating' = 0) =>
            (returned' = creating /\ raised' = None)]_vars

\* one task was dispatched on each path and both calls have returned
C10_Witness ==
    \E t \in Created, u \in Created :
        /\ path[t] = "inline" /\ path[u] = "thread"
        /\ creating = 0 /\ returned \in {t, u}
        /\ raised = None

----------------------------------------------------------------------------
(* Registry and handle table *)

\* C15: a task_id leaves the set of stored records only in a step of
\* cleanup_old_tasks: no step of create_task, of the run routine or of
\* cancel_task removes one.
C15_OnlySweepRemoves ==
    [][(tasks \ tasks' # {}) => \E a \in MaxAges : cleanup_old_tasks(a)]_vars

\* a sweep has reaped one record while the run of another, which was
\* cancelled, is over and its record is still stored
C15_Witness ==
    \E t \in Created, u \in Created :
        /\ t \notin tasks
        /\ pc[u] = "done" /\ u \in cancel_true /\ u \in tasks

\* C18: once the run of an inline task has ended, the handle table holds no
\* entry for it.
C18_EndedRunHasNoHandle ==
    \A t \in Created :
        (path[t] = "inline" /\ RunEnded(t)) => t \notin running_tasks

\* C19: the progress of a record in a terminal status never changes.
C19_ProgressFrozenOnceTerminal ==
    [][\A t \in Ids :
          info[t].status \in Terminal =>
              info'[t].progress = info[t].progress]_vars

\* C11: a cancel_task call for a task dispatched to a worker thread returns
\* False and changes neither a record, nor a handle, nor a run, whatever the
\* point of the task's life
C11_ThreadCancelIsNoOp ==
    [][\A t \in Ids :
          (path[t] = "thread" /\ call'.op = "cancel" /\ cancel_task(t)) =>
              /\ Ret(call') = FALSE
              /\ UNCHANGED <<tasks, info, running_tasks, must_cancel, pc,
                             path, outcome, cancel_true>>]_vars

C11_Witness ==
    /\ call.op = "cancel"
    /\ path[Arg(call)] = "thread"
    /\ Ret(call) = FALSE
    /\ Arg(call) \in tasks
    /\ info[Arg(call)].status = RUNNING

C11_WitnessReaped ==
    /\ call.op = "cancel"
    /\ path[Arg(call)] = "thread"
    /\ Ret(call) = FALSE
    /\ Arg(call) \notin tasks

\* C16: get_task_status raises nothing and changes no record and no key of
\* the registry; it returns None for an id that was never created or whose
\* record was deleted, and the stored record for an id that is stored
C16_GetAbsentOrStored ==
    [][\A t \in Ids :
          (call'.op = "get" /\ call_get_task_status(t)) =>
              /\ UNCHANGED <<tasks, info, raised>>
              /\ t \notin Created => Ret(call') = NoInfo
              /\ (t \in Created /\ t \notin tasks) => Ret(call') = NoInfo
              /\ t \in tasks => Ret(call') = info[t]]_vars

C16_Witness ==
    /\ call.op = "get"
    /\ Arg(call) \in Created
    /\ Arg(call) \notin tasks
    /\ Ret(call) = NoInfo

C16_WitnessStored ==
    /\ call.op = "get"
    /\ Arg(call) \in tasks
    /\ Ret(call) = info[Arg(call)]
    /\ Ret(call).status = RUNNING

\* C13: cleanup_old_tasks(max_age) deletes exactly the stored records that
\* are terminal and completed more than max_age before the call, and leaves
\* every other record stored and every record unmodified; a Pending or
\* Running record stays whatever its age
C13_SweepRemovesExactlyOld ==
    [][\A a \in MaxAges :
          (call'.op = "cleanup" /\ cleanup_old_tasks(a)) =>
              /\ tasks' \subseteq tasks
              /\ \A t \in tasks :
                    t \notin tasks' <=>
                        /\ info[t].status \in Terminal
                        /\ info[t].completed_at # NoTime
                        /\ now - info[t].completed_at > a
              /\ \A t \in tasks :
                    info[t].status \in {PENDING, RUNNING} => t \in tasks'
              /\ info' = info]_vars

C13_Witness ==
    /\ call.op = "cleanup"
    /\ Arg(call) = 0
    /\ \E t \in Created, v \in tasks :
          /\ t \notin tasks
          /\ info[t].completed_at < now
          /\ info[v].status \in {PENDING, RUNNING}
          /\ info[v].created_at < now

\* C14 as stated: whenever cleanup_old_tasks(0) is called with a stored
\* record in a terminal status, get_task_status returns None for it
\* afterwards, however little time passed since the task completed
C14_SweepZeroReapsTerminal ==
    [][\A t \in tasks :
          (/\ info[t].status \in Terminal
           /\ call'.op = "cleanup"
           /\ cleanup_old_tasks(0)) =>
              get_task_status(t)' = NoInfo]_vars

\* C14 amended: whenever cleanup_old_tasks(0) is called with a stored record
\* in a terminal status whose completed_at is set and earlier than the clock
\* reading of the call, get_task_status returns None for it afterwards
C14_SweepZeroReapsCompletedEarlier ==
    [][\A t \in tasks :
          (/\ info[t].status \in Terminal
           /\ info[t].completed_at # NoTime
           /\ info[t].completed_at < now
           /\ call'.op = "cleanup"
           /\ cleanup_old_tasks(0)) =>
              get_task_status(t)' = NoInfo]_vars

C14_Witness ==
    /\ call.op = "cleanup"
    /\ Arg(call) = 0
    /\ \E t \in Created :
          /\ info[t].status \in Terminal
          /\ info[t].completed_at # NoTime
          /\ info[t].completed_at < now
          /\ get_task_status(t) = NoInfo
    /\ \A t \in Created : info[t].created_at = now => t \in tasks

\* C20: while a get_user_tasks or cleanup_old_tasks scan is iterating the
\* registry, no step of any thread changes the set of stored records
C20_NoMutationDuringScan ==
    [][(\E s \in Scanners : Scanning(s)) => tasks' = tasks]_vars

\* C13, for a call other threads may run beside: when a cleanup_old_tasks
\* call ends, the records that were terminal and completed more than max_age
\* before the call was made are stored no more, and the call has deleted no
\* other record
C13_SweepCallRemovesExactlyOld ==
    [][\A s \in Scanners :
          (scan[s].op = "cleanup" /\ scan'[s] = NoScan) =>
              /\ \A t \in scan[s].expect : t \notin tasks'
              /\ scan[s].removed \subseteq scan[s].expect]_vars

\* C14, for a call other threads may run beside: when a cleanup_old_tasks(0)
\* call has ended, get_task_status returns None for every record that was
\* terminal when the call was made
C14_SweepCallZeroReapsTerminal ==
    [][\A s \in Scanners :
          (scan[s].op = "cleanup" /\ scan[s].max_age = 0
                                 /\ scan'[s] = NoScan) =>
              \A t \in scan[s].terminal : get_task_status(t)' = NoInfo]_vars

\* the ids of the records ever created for a user
CreatedFor(user_id) == {t \in Created : info[t].user_id = user_id}

\* a sequence of ids holds each id of S once, newest created_at first
ExactlyNewestFirst(seq, S) ==
    /\ Len(seq) = Cardinality(S)
    /\ \A t \in S : \E i \in 1..Len(seq) : seq[i] = t
    /\ \A i, j \in 1..Len(seq) :
          i < j => info[seq[i]].created_at >= info[seq[j]].created_at

\* C12: a get_user_tasks(X) call returns, and what it returns holds exactly
\* the records created with user_id X, each once, newest created first
C12_ListReturnsAllCreated ==
    [][\A s \in Scanners :
          (scan[s].op = "list" /\ scan'[s] = NoScan) =>
              /\ ScanRaises(s) = None
              /\ ExactlyNewestFirst(ScanReturns(s),
                                    CreatedFor(scan[s].user_id))]_vars

\* C12 with the records reaped since left out: a get_user_tasks(X) call
\* returns, and what it returns holds exactly the records of user_id X that
\* were stored when it was called
C12_ListReturnsAllStored ==
    [][\A s \in Scanners :
          (scan[s].op = "list" /\ scan'[s] = NoScan) =>
              /\ ScanRaises(s) = None
              /\ ExactlyNewestFirst(ScanReturns(s), scan[s].expect)]_vars

\* C21: task_id, user_id, project_id, task_type and created_at of a record
\* never change after create_task stored it, and started_at and completed_at
\* never change once they are set
C21_WriteOnceFields ==
    [][\A t \in Ids :
          /\ info[t].status # "absent" =>
                /\ info'[t].task_id = info[t].task_id
                /\ info'[t].user_id = info[t].user_id
                /\ info'[t].project_id = info[t].project_id
                /\ info'[t].task_type = info[t].task_type
                /\ info'[t].created_at = info[t].created_at
          /\ info[t].started_at # NoTime =>
                info'[t].started_at = info[t].started_at
          /\ info[t].completed_at # NoTime =>
                info'[t].completed_at = info[t].completed_at]_vars

C21_Witness ==
    \E t \in Created :
        /\ pc[t] = "done"
        /\ info[t].task_id = t
        /\ info[t].project_id = "p1"
        /\ info[t].created_at = 0
        /\ info[t].started_at = 0
        /\ info[t].completed_at = 0
        /\ info[t].progress # None
        /\ now > 0

\* C22: while the blocking work function of an inline task is executing in
\* the executor pool, the task does not hold the driving loop: another inline
\* task that is ready can take its first step unless something else holds
\* the loop, and get_task_status, get_user_tasks and cancel_task can be called
C22_BlockingWorkFreesLoop ==
    \A t \in Created :
        (path[t] = "inline" /\ pc[t] = "l124") =>
            /\ loop # t
            /\ \A u \in Created :
                  (path[u] = "inline" /\ pc[u] = "ready" /\ loop \in {0, t})
                      => ENABLED run_task_start(u)
            /\ Known(t) =>
                  /\ ENABLED cancel_task(t)
                  /\ ENABLED call_get_task_status(t)
                  /\ ENABLED call_get_user_tasks(info[t].user_id, None)

\* another inline task has taken its first step and holds the loop, and a
\* cancel_task call has been answered, while the blocking function of the
\* first is executing
C22_Witness ==
    \E t \in Created, u \in Created :
        /\ path[t] = "inline" /\ pc[t] = "l124"
        /\ path[u] = "inline" /\ pc[u] = "l113" /\ loop = u
        /\ t \in cancel_true /\ must_cancel[t]

\* another inline task has started and finished meanwhile
C22_WitnessFinished ==
    \E t \in Created, u \in Created :
        /\ path[t] = "inline" /\ pc[t] = "l124"
        /\ path[u] = "inline" /\ pc[u] = "done"
        /\ info[u].status = COMPLETED
        /\ info[t].started_at < info[u].started_at

\* C23: a cleanup_old_tasks call returns the number of records it deleted
C23_SweepReturnsCount ==
    [][\A a \in MaxAges :
          (call'.op = "cleanup" /\ cleanup_old_tasks(a)) =>
              /\ call'.ret # <<>>
              /\ Ret(call') = Cardinality(tasks \ tasks')]_vars

\* C24: update_task_progress(task_id, p) on a stored id sets the progress of
\* that record and changes no other field of it, no other record, no key of
\* the registry and no handle; on an id that is not stored (never created or
\* reaped) it changes nothing and stores no record
C24_ProgressOnlyProgress ==
    [][\A t \in Ids, p \in ProgressValues :
          (call'.op = "progress" /\ update_task_progress(t, p)) =>
              /\ tasks' = tasks
              /\ running_tasks' = running_tasks
              /\ must_cancel' = must_cancel
              /\ \A u \in Ids \ {t} : info'[u] = info[u]
              /\ t \notin tasks => info'[t] = info[t]
              /\ t \in tasks =>
                    /\ info'[t].progress = p
                    /\ info'[t].task_id = info[t].task_id
                    /\ info'[t].user_id = info[t].user_id
                    /\ info'[t].project_id = info[t].project_id
                    /\ info'[t].task_type = info[t].task_type
                    /\ info'[t].status = info[t].status
                    /\ info'[t].created_at = info[t].created_at
                    /\ info'[t].started_at = info[t].started_at
                    /\ info'[t].completed_at = info[t].completed_at
                    /\ info'[t].result = info[t].result
                    /\ info'[t].error = info[t].error]_vars

C24_Witness ==
    /\ call.op = "progress"
    /\ Arg(call) \in tasks
    /\ info[Arg(call)].status = RUNNING
    /\ info[Arg(call)].progress = call.arg[2]

C24_WitnessReaped ==
    /\ call.op = "progress"
    /\ Arg(call) \in Created
    /\ Arg(call) \notin tasks
    /\ info[Arg(call)].progress = None

\* C25: a record is Cancelled only if a cancel_task call for its id has
\* returned True, and the record of a task dispatched to a worker thread is
\* never Cancelled
C25_CancelledOnlyAfterCancelTrue ==
    \A t \in Created :
        info[t].status = CANCELLED =>
            /\ t \in cancel_true
            /\ path[t] # "thread"

\* C26: a cleanup_old_tasks call that runs beside the cleanup_old_tasks calls
\* of other threads does not fail because of them: its deleting loop never
\* finds an id already deleted, and its scan never finds the registry
\* shrunk by a deletion
C26_ConcurrentSweepsNeverFail ==
    [][\A s \in Scanners :
          (scan[s].op = "cleanup" /\ scan'[s] # scan[s]) =>
              /\ ScanRaises(s) # "KeyError"
              /\ ~ (/\ ScanRaises(s) = "RuntimeError"
                    /\ Cardinality(tasks) < scan[s].size)]_vars

\* C26, the deleting loop alone: no cleanup_old_tasks call tries to delete an
\* id that another call has deleted since its scan
C26_NoDeleteOfDeleted ==
    [][\A s \in Scanners :
          (scan[s].phase = "delete" /\ scan'[s] # scan[s]) =>
              ScanRaises(s) # "KeyError"]_vars

\* C27: the run routine finds its record at its first step: a record whose
\* routine has not started yet is stored and Pending, whatever sweeps have run
\* since create_task stored it, and no routine ends on the KeyError of the
\* lookup of line 109
C27_RunFindsRecord ==
    \A t \in Created :
        /\ pc[t] = "ready" => (t \in tasks /\ info[t].status = PENDING)
        /\ pc[t] # "crashed"

\* task 2 was created before task 1 completed, task 1 has been swept since,
\* and the routine of task 2 is about to make its lookup
C27_Witness ==
    /\ 2 \in Created
    /\ pc[2] = "ready"
    /\ ~ must_cancel[2]
    /\ ENABLED run_task_start(2)
    /\ 1 \notin tasks
    /\ info[1].completed_at > info[2].created_at

\* the routine of task 2 has found its record, and task 1 was swept at age
\* zero by a call with a negative max_age
C27_WitnessStarted ==
    /\ 2 \in Created
    /\ pc[2] = "l113"
    /\ 1 \notin tasks
    /\ info[1].completed_at > info[2].created_at
    /\ info[1].completed_at = now

\* C28: cancel_task returns True only for a task whose record is stored, at
\* the moment of the call, with status Pending or Running
C28_CancelTrueOnlyWhenLive ==
    [][\A t \in Ids :
          (/\ call'.op = "cancel"
           /\ cancel_task(t)
           /\ Arg(call') = t
           /\ Ret(call') = TRUE) =>
              /\ t \in tasks
              /\ info[t].status \in {PENDING, RUNNING}]_vars

\* C28, its second half alone: for a task that is reaped or was never created
\* cancel_task returns False
C28_CancelFalseWhenNotStored ==
    [][\A t \in Ids :
          (/\ call'.op = "cancel"
           /\ cancel_task(t)
           /\ Arg(call') = t
           /\ t \notin tasks) =>
              Ret(call') = FALSE]_vars

\* C29: on the inline path, from the moment create_task has stored the record
\* until the calling coroutine yields, the record is stored, Pending and has
\* no started_at, and get_task_status finds it so
C29_PendingUntilCallerYields ==
    \A t \in Created :
        (creating = t /\ path[t] = "inline") =>
            /\ get_task_status(t) # NoInfo
            /\ get_task_status(t).status = PENDING
            /\ get_task_status(t).started_at = NoTime
            /\ pc[t] = "ready"

\* C29, for the endpoint: the get_task_status call the coverage-test endpoint
\* makes right after create_task returns a Pending record
C29_EndpointReadsPending ==
    [][(call'.op = "get" /\ run_coverage_analysis_status) =>
          /\ Ret(call') # NoInfo
          /\ Ret(call').task_id = creating
          /\ Ret(call').status = PENDING
          /\ Ret(call').started_at = NoTime]_vars

\* the endpoint has read its record back and has not yielded yet, while the
\* task created before it is running
C29_Witness ==
    /\ creating = 2
    /\ path[2] = "inline"
    /\ call.op = "get"
    /\ Arg(call) = 2
    /\ Ret(call).status = PENDING
    /\ info[1].status = RUNNING

\* the routine of t has passed lines 119-124: the work function was invoked
Invoked(t) ==
    pc[t] \notin {"none", "ready", "aborted", "crashed", "l113", "l114", "l119"}

\* C30: the work function of a task is invoked at most once, whatever the
\* dispatch path and whatever cancel_task and cleanup_old_tasks calls are made:
\* the invocation is a step of a routine that has not invoked it yet, a routine
\* that has invoked it never comes back before the invocation, and a record
\* is Completed or Failed only after the invocation, with its outcome
C30_WorkInvokedAtMostOnce ==
    [][\A t \in Ids :
          /\ run_task_invoke(t) => (~ Invoked(t) /\ Invoked(t)')
          /\ Invoked(t) => (Invoked(t)' /\ ~ run_task_invoke(t))
          /\ info'[t].status = COMPLETED =>
                (Invoked(t)' /\ outcome'[t].kind = "return")
          /\ info'[t].status = FAILED =>
                (Invoked(t)' /\ outcome'[t].kind = "raise")]_vars

\* task 1, inline, was invoked, cancelled with True returned, ended and was
\* swept; task 2, on a worker thread, was invoked and Failed
C30_Witness ==
    /\ path[1] = "inline"
    /\ pc[1] = "done"
    /\ 1 \in cancel_true
    /\ info[1].status \in {COMPLETED, CANCELLED}
    /\ 1 \notin tasks
    /\ path[2] = "thread"
    /\ info[2].status = FAILED
    /\ pc[2] = "done"

=============================================================================
